---- MODULE Spec2Model ----
(***************************************************************************)
(* A model of the NotebookLM portal: the content pipeline of               *)
(* src/workflow.py (fetch_and_parse_content, rank_content_by_relevance,    *)
(* generate_filename, generate_pdf, process_workflow) and the boundary     *)
(* layer of src/app.py (the background loader and the /process handler).   *)
(*                                                                         *)
(* Text is modelled in two ways.  A title, a query, a URL and a filename   *)
(* are sequences of one-character strings (a filename also holds the      *)
(* fixed-width timestamp as one token).  The text of a paragraph and the   *)
(* content of a Candidate are modelled by their length in characters,      *)
(* which is all that the extraction thresholds read.                       *)
(***************************************************************************)
EXTENDS Integers, Sequences, FiniteSets, TLC

VARIABLES
    clock,              \* the local clock, in whole seconds (datetime.now())
    loader_pc,          \* position of the background loader thread
    model,              \* app.py global: the embedding model, or None
    model_ready,        \* app.py global
    workflow_ready,     \* app.py global
    process_workflow,   \* app.py global: None, or the workflow function
    pc,                 \* position of each /process request handler
    form,               \* each request's form data (url, query)
    loc,                \* each handler's locals (url, query, essays, best_essay, ...)
    response,           \* each request's response
    files,              \* the storage directory: filename -> document
    log,                \* per request, the stages invoked so far, in order
    f_pc, f_page, f_essays, f_tried, f_ret,   \* one run of fetch_and_parse_content
    r_pc, r_essays, r_scores, r_ret,          \* one run of rank_content_by_relevance
    n_pc, n_title, n_query, n_ret             \* one run of generate_filename

appVars   == <<loader_pc, model, model_ready, workflow_ready, process_workflow,
               pc, form, loc, response, files, log>>
fetchVars == <<f_pc, f_page, f_essays, f_tried, f_ret>>
rankVars  == <<r_pc, r_essays, r_scores, r_ret>>
nameVars  == <<n_pc, n_title, n_query, n_ret>>
vars      == <<clock, appVars, fetchVars, rankVars, nameVars>>
notFetch  == <<clock, appVars, rankVars, nameVars>>
notRank   == <<clock, appVars, fetchVars, nameVars>>
notName   == <<clock, appVars, fetchVars, rankVars>>

(***************************************************************************)
(* Bounds of the model.                                                    *)
(***************************************************************************)
MaxClock  == 2      \* the clock runs over 0..MaxClock
MaxPad    == 10     \* a page holds up to MaxPad copies of one article ...
MaxSuffix == 1      \* ... followed by up to MaxSuffix further articles
MaxRep    == 2      \* a long title or query repeats a pattern 25 + 0..MaxRep times
MaxScore  == 2      \* similarity scores are drawn from 0..MaxScore
MaxEssays == 3      \* the ranker is run on up to MaxEssays Candidates

(***************************************************************************)
(* Program constants.                                                      *)
(***************************************************************************)
ArticleLimit     == 10      \* articles[:10]
MinContent       == 200     \* len(content) > 200
MinParagraph     == 50      \* len(p.get_text(strip=True)) > 50
TitleLimit       == 50      \* clean_title[:50]
QueryLimit       == 30      \* clean_query[:30]

None == <<"<None>">>        \* Python's None, as a value no text equals

(***************************************************************************)
(* Strings.                                                                *)
(***************************************************************************)
\* The characters of the model: letters, digits and the underscore are word
\* characters (\w); SpaceChars are whitespace (\s); then the hyphen; OtherChars
\* are the rest (punctuation).
SpaceChars == {" ", "\t"}
OtherChars == {"!", ",", "?", "/", ".", ":"}
IsSpace(c) == c \in SpaceChars
IsWord(c)  == c \notin (SpaceChars \cup OtherChars \cup {"-"})

Take(s, k) == SubSeq(s, 1, IF Len(s) < k THEN Len(s) ELSE k)     \* s[:k]

RECURSIVE Repeat(_, _)
Repeat(p, k) == IF k = 0 THEN <<>> ELSE p \o Repeat(p, k - 1)

RECURSIVE RemoveSpecial(_)
\* re.sub(r'[^\w\s-]', '', s)
RemoveSpecial(s) ==
    IF s = <<>> THEN <<>>
    ELSE (IF IsWord(Head(s)) \/ IsSpace(Head(s)) \/ Head(s) = "-"
          THEN <<Head(s)>> ELSE <<>>) \o RemoveSpecial(Tail(s))

RECURSIVE CollapseRuns(_, _)
\* re.sub(r'[-\s]+', '_', s): inRun says the previous character was part of a run
CollapseRuns(s, inRun) ==
    IF s = <<>> THEN <<>>
    ELSE IF IsSpace(Head(s)) \/ Head(s) = "-"
         THEN (IF inRun THEN <<>> ELSE <<"_">>) \o CollapseRuns(Tail(s), TRUE)
         ELSE <<Head(s)>> \o CollapseRuns(Tail(s), FALSE)

RECURSIVE LStrip(_, _)
LStrip(s, chars) ==
    IF s # <<>> /\ Head(s) \in chars THEN LStrip(Tail(s), chars) ELSE s

RECURSIVE RStrip(_, _)
RStrip(s, chars) ==
    IF s # <<>> /\ s[Len(s)] \in chars THEN RStrip(SubSeq(s, 1, Len(s) - 1), chars) ELSE s

\* s.strip('_')
StripUnderscores(s) == RStrip(LStrip(s, {"_"}), {"_"})

\* s.strip(): leading and trailing whitespace removed
StripSpace(s) == RStrip(LStrip(s, SpaceChars), SpaceChars)

\* a variant that trims the underscores before the runs are collapsed
Mut_Clean(s) == CollapseRuns(RemoveSpecial(StripUnderscores(s)), FALSE)

\* the three cleaning steps of generate_filename, in its order
Clean(s) == StripUnderscores(CollapseRuns(RemoveSpecial(s), FALSE))

\* a variant whose format drops the seconds: '%Y%m%d_%H%M'
Mut_Timestamp(t) == <<"ts" \o ToString(t \div 60)>>

\* datetime.now().strftime('%Y%m%d_%H%M%S'): one fixed-width token per second
Timestamp(t) == <<"ts" \o ToString(t)>>

NamePrefix  == <<"N", "o", "t", "e", "b", "o", "o", "k", "L", "M", "_">>
NameContent == <<"C", "o", "n", "t", "e", "n", "t">>
NameSuffix  == <<".pdf">>

\* generate_filename(essay_title, query), the clock reading t;
\* re.sub raises TypeError on a title that is None
generate_filename(essay_title, query, t) ==
    IF essay_title = None THEN [raised |-> "TypeError"]
    ELSE
    LET clean_title == Take(Clean(essay_title), TitleLimit)
        clean_query == Take(Clean(query), QueryLimit)
    IN  [raised |-> "no",
         value |->
            IF clean_title # <<>> /\ clean_query # <<>>
            THEN NamePrefix \o clean_title \o <<"_">> \o clean_query \o <<"_">>
                    \o Timestamp(t) \o NameSuffix
            ELSE IF clean_title # <<>>
            THEN NamePrefix \o clean_title \o <<"_">> \o Timestamp(t) \o NameSuffix
            ELSE NamePrefix \o NameContent \o <<"_">> \o Timestamp(t) \o NameSuffix]

(***************************************************************************)
(* Pages.  A page is the parse tree as far as fetch_and_parse_content      *)
(* reads it: its <title>, its <article> elements in document order, one    *)
(* optional container (a <main>, or a <div> whose class matches the        *)
(* content pattern) and the paragraphs outside both.  An article inside a  *)
(* script/style/nav/footer/header element has noise = TRUE.  A paragraph   *)
(* is the length of its stripped text.                                     *)
(***************************************************************************)
NoHeading == [tag |-> "none", text |-> <<>>]
NoMain    == [kind |-> "none", pos |-> "before", heading |-> NoHeading, paras |-> <<>>]

RECURSIVE Sum(_)
Sum(s) == IF s = <<>> THEN 0 ELSE Head(s) + Sum(Tail(s))

\* len(' '.join(texts)), texts given by their lengths
JoinLen(lens) == IF lens = <<>> THEN 0 ELSE Sum(lens) + (Len(lens) - 1)

RECURSIVE Digits(_)
Digits(k) == IF k < 10 THEN <<ToString(k)>> ELSE Digits(k \div 10) \o <<ToString(k % 10)>>

\* f"Article {idx+1}"
ArticleN(k) == <<"A", "r", "t", "i", "c", "l", "e", " ">> \o Digits(k)

WebContent == <<"W", "e", "b", " ", "C", "o", "n", "t", "e", "n", "t">>

\* {'title': 'No Content Found', 'content': 'Unable to extract meaningful content from this URL.'}
Sentinel == [title   |-> <<"N", "o", " ", "C", "o", "n", "t", "e", "n", "t", " ",
                           "F", "o", "u", "n", "d">>,
             content |-> 51]

RECURSIVE Flatten(_)
Flatten(ss) == IF ss = <<>> THEN <<>> ELSE Head(ss) \o Flatten(Tail(ss))

\* for script in soup(["script", "style", "nav", "footer", "header"]): script.decompose()
Soup(page) ==
    LET Live(a) == ~a.noise IN [page EXCEPT !.articles = SelectSeq(page.articles, Live)]

\* soup.title.string if soup.title else "Web Content"
DocTitle(soup) == IF soup.title.present THEN soup.title.string ELSE WebContent

RECURSIVE ArticleEssays(_, _)
\* the loop of Strategy 1 over enumerate(articles[:10]), from index idx (0-based)
ArticleEssays(arts, idx) ==
    IF arts = <<>> THEN <<>>
    ELSE LET article    == Head(arts)
             title_text == IF article.heading.tag \in {"h1", "h2", "h3"}
                           THEN article.heading.text ELSE ArticleN(idx + 1)
             content    == JoinLen(article.paras)
         IN  (IF content > MinContent
              THEN <<[title |-> title_text, content |-> content]>> ELSE <<>>)
             \o ArticleEssays(Tail(arts), idx + 1)

\* a variant that cuts the article list one short: articles[:9]
Mut_Strategy1(soup) == ArticleEssays(Take(soup.articles, ArticleLimit - 1), 0)

\* Strategy 1: Look for article tags
Strategy1(soup) == ArticleEssays(Take(soup.articles, ArticleLimit), 0)

\* the paragraphs under a <main>/<div> container: its own, and those of the
\* articles it wraps
ContainerParas(soup) ==
    soup.main.paras \o
    (IF soup.main.pos = "wraps"
     THEN Flatten([i \in 1..Len(soup.articles) |-> soup.articles[i].paras]) ELSE <<>>)

\* main_content.find(['h1', 'h2']) under a <main>/<div> container
ContainerHeading(soup) ==
    LET H12(a) == a.heading.tag \in {"h1", "h2"}
        inner  == SelectSeq(soup.articles, H12)
    IN  IF soup.main.heading.tag \in {"h1", "h2"} THEN soup.main.heading
        ELSE IF soup.main.pos = "wraps" /\ inner # <<>> THEN inner[1].heading
        ELSE NoHeading

\* soup.find(['main', 'article']) or soup.find('div', class_=...):
\* the container as (heading found by find(['h1','h2']), paragraphs), or "none"
MainContent(soup) ==
    IF soup.main.kind = "main" /\ (soup.articles = <<>> \/ soup.main.pos # "after")
    THEN [found |-> TRUE, heading |-> ContainerHeading(soup), paras |-> ContainerParas(soup)]
    ELSE IF soup.articles # <<>>
    THEN [found |-> TRUE,
          heading |-> IF soup.articles[1].heading.tag \in {"h1", "h2"}
                      THEN soup.articles[1].heading ELSE NoHeading,
          paras |-> soup.articles[1].paras]
    ELSE IF soup.main.kind = "div"
    THEN [found |-> TRUE, heading |-> ContainerHeading(soup), paras |-> ContainerParas(soup)]
    ELSE [found |-> FALSE, heading |-> NoHeading, paras |-> <<>>]

\* Strategy 2: Look for main content div/section
Strategy2(soup) ==
    LET main_content == MainContent(soup)
        page_title   == IF main_content.heading.tag # "none"
                        THEN main_content.heading.text ELSE DocTitle(soup)
        content      == JoinLen(main_content.paras)
    IN  IF main_content.found /\ content > MinContent
        THEN <<[title |-> page_title, content |-> content]>> ELSE <<>>

\* soup.find_all('p'): every paragraph of the document
AllParas(soup) ==
    soup.loose \o soup.main.paras
        \o Flatten([i \in 1..Len(soup.articles) |-> soup.articles[i].paras])

\* Strategy 3: Fallback - extract all paragraphs from body
Strategy3(soup) ==
    LET Big(n)  == n > MinParagraph
        content == JoinLen(SelectSeq(AllParas(soup), Big))
    IN  IF content > MinContent
        THEN <<[title |-> DocTitle(soup), content |-> content]>> ELSE <<>>

\* a variant that returns the list as it is, empty or not
Mut_EssaysOrSentinel(essays) == essays

\* return essays if essays else [sentinel]
EssaysOrSentinel(essays) == IF essays # <<>> THEN essays ELSE <<Sentinel>>

\* fetch_and_parse_content on a page that was fetched
fetch_and_parse_content(page) ==
    LET soup == Soup(page)
        e1   == Strategy1(soup)
        e2   == IF e1 = <<>> THEN Strategy2(soup) ELSE e1
        e3   == IF e2 = <<>> THEN Strategy3(soup) ELSE e2
    IN  EssaysOrSentinel(e3)

(***************************************************************************)
(* rank_content_by_relevance.  The embedding model is an external          *)
(* collaborator: one run of it either raises, or yields one similarity     *)
(* score per Candidate.                                                    *)
(***************************************************************************)
NoneEssay == [none |-> TRUE]        \* Python's None where a Candidate is expected

\* a variant that takes the last index holding the maximum
Mut_Argmax(scores) ==
    CHOOSE i \in 1..Len(scores) :
        /\ \A j \in 1..Len(scores) : scores[j] <= scores[i]
        /\ \A j \in (i + 1)..Len(scores) : scores[j] < scores[i]

\* similarities.argmax().item(): the first index holding the maximum (0-based in
\* the code, 1-based here)
Argmax(scores) ==
    CHOOSE i \in 1..Len(scores) :
        /\ \A j \in 1..Len(scores) : scores[j] <= scores[i]
        /\ \A j \in 1..(i - 1) : scores[j] < scores[i]

\* a variant whose except clause returns None instead of essays[0]
Mut_rank_content_by_relevance(essays, enc) ==
    IF essays = <<>> \/ enc.raised THEN NoneEssay
    ELSE essays[Argmax(enc.scores)]

\* rank_content_by_relevance(essays, user_query), enc the outcome of the
\* encode/cos_sim calls of its try block
rank_content_by_relevance(essays, enc) ==
    IF essays = <<>> THEN NoneEssay
    ELSE IF enc.raised THEN essays[1]
    ELSE essays[Argmax(enc.scores)]

\* the outcomes of the try block on n Candidates
Encodings(n) ==
    {[raised |-> TRUE, scores |-> <<>>]}
        \cup {[raised |-> FALSE, scores |-> sc] : sc \in [1..n -> 0..MaxScore]}

(***************************************************************************)
(* Inputs of the component runs.                                           *)
(***************************************************************************)
TitleA == <<"a">>
TitleB == <<"b">>

LongArticle  == [heading |-> [tag |-> "h2", text |-> TitleA], paras |-> <<120, 80>>,
                 noise |-> FALSE]
ShortArticle == [heading |-> NoHeading, paras |-> <<120, 79>>, noise |-> FALSE]
H3Article    == [heading |-> [tag |-> "h3", text |-> TitleB], paras |-> <<60, 140>>,
                 noise |-> FALSE]
NoiseArticle == [heading |-> [tag |-> "h1", text |-> TitleB], paras |-> <<201>>,
                 noise |-> TRUE]
ArticleKinds == {LongArticle, ShortArticle, H3Article, NoiseArticle}

ArticleLists ==
    {Repeat(<<k>>, n) \o suffix :
        k \in ArticleKinds, n \in 0..MaxPad,
        suffix \in UNION {[1..m -> ArticleKinds] : m \in 0..MaxSuffix}}

Mains ==
    {NoMain,
     [kind |-> "main", pos |-> "before", heading |-> [tag |-> "h1", text |-> TitleB],
      paras |-> <<201>>],
     [kind |-> "main", pos |-> "wraps", heading |-> NoHeading, paras |-> <<40>>],
     [kind |-> "main", pos |-> "after", heading |-> NoHeading, paras |-> <<201>>],
     [kind |-> "div", pos |-> "before", heading |-> [tag |-> "h3", text |-> TitleA],
      paras |-> <<100, 100>>]}

DocTitles == {[present |-> FALSE, string |-> None],
              [present |-> TRUE, string |-> None],
              [present |-> TRUE, string |-> <<"c">>]}

Looses == {<<>>, <<50, 51>>, <<100, 100>>}

Pages == [title : DocTitles, articles : ArticleLists, main : Mains, loose : Looses]

RankCandidates == {[title |-> TitleA, content |-> 201],
                   [title |-> TitleB, content |-> 201],
                   [title |-> TitleB, content |-> 1500]}

RankInputs == UNION {[1..n -> RankCandidates] : n \in 0..MaxEssays}

NameAlphabet == {"a", "_", " ", "!"}
NamePatterns ==
    {<<c>> : c \in NameAlphabet} \cup {<<c, d>> : c, d \in NameAlphabet}
        \cup {<<"-">>, <<"a", "-">>, <<"-", " ">>}
NameInputs ==
    {<<>>} \cup {Repeat(p, k) : p \in NamePatterns, k \in {1, 2} \cup (25..(25 + MaxRep))}

(***************************************************************************)
(* One run of fetch_and_parse_content, strategy by strategy.               *)
(***************************************************************************)
AppParked ==
    /\ loader_pc = "off" /\ model = "None" /\ model_ready = FALSE
    /\ workflow_ready = FALSE /\ process_workflow = "None"
    /\ pc = <<>> /\ form = <<>> /\ loc = <<>> /\ response = <<>>
    /\ files = {} /\ log = <<>>
FetchParked == f_pc = "off" /\ f_page = <<>> /\ f_essays = <<>> /\ f_tried = <<>> /\ f_ret = <<>>
RankParked  == r_pc = "off" /\ r_essays = <<>> /\ r_scores = <<>> /\ r_ret = <<>>
NameParked  == n_pc = "off" /\ n_title = <<>> /\ n_query = <<>> /\ n_ret = <<>>

FetchInit ==
    /\ clock = 0 /\ AppParked /\ RankParked /\ NameParked
    /\ f_pc = "get" /\ f_page \in Pages
    /\ f_essays = <<>> /\ f_tried = <<>> /\ f_ret = <<>>

\* requests.get / raise_for_status / BeautifulSoup succeed
F_Get ==
    /\ f_pc = "get"
    /\ f_pc' = "s1"
    /\ UNCHANGED <<f_page, f_essays, f_tried, f_ret>>
    /\ UNCHANGED notFetch

\* they raise: except Exception -> raise Exception("Error fetching/parsing content")
F_GetRaises ==
    /\ f_pc = "get"
    /\ f_pc' = "raised"
    /\ f_ret' = [raised |-> "FetchError"]
    /\ UNCHANGED <<f_page, f_essays, f_tried>>
    /\ UNCHANGED notFetch

F_Strategy1 ==
    /\ f_pc = "s1"
    /\ f_essays' = Strategy1(Soup(f_page))
    /\ f_tried' = Append(f_tried, 1)
    /\ f_pc' = "s2"
    /\ UNCHANGED <<f_page, f_ret>>
    /\ UNCHANGED notFetch

\* if not essays: Strategy 2
F_Strategy2 ==
    /\ f_pc = "s2" /\ f_essays = <<>>
    /\ f_essays' = Strategy2(Soup(f_page))
    /\ f_tried' = Append(f_tried, 2)
    /\ f_pc' = "s3"
    /\ UNCHANGED <<f_page, f_ret>>
    /\ UNCHANGED notFetch

\* a variant without the "if not essays" guard: Strategy 2 adds to Strategy 1's list
Mut_F_Skip2 ==
    /\ f_pc = "s2" /\ f_essays # <<>>
    /\ f_essays' = f_essays \o Strategy2(Soup(f_page))
    /\ f_tried' = Append(f_tried, 2)
    /\ f_pc' = "s3"
    /\ UNCHANGED <<f_page, f_ret>>
    /\ UNCHANGED notFetch

F_Skip2 ==
    /\ f_pc = "s2" /\ f_essays # <<>>
    /\ f_pc' = "s3"
    /\ UNCHANGED <<f_page, f_essays, f_tried, f_ret>>
    /\ UNCHANGED notFetch

\* if not essays: Strategy 3
F_Strategy3 ==
    /\ f_pc = "s3" /\ f_essays = <<>>
    /\ f_essays' = Strategy3(Soup(f_page))
    /\ f_tried' = Append(f_tried, 3)
    /\ f_pc' = "ret"
    /\ UNCHANGED <<f_page, f_ret>>
    /\ UNCHANGED notFetch

F_Skip3 ==
    /\ f_pc = "s3" /\ f_essays # <<>>
    /\ f_pc' = "ret"
    /\ UNCHANGED <<f_page, f_essays, f_tried, f_ret>>
    /\ UNCHANGED notFetch

F_Return ==
    /\ f_pc = "ret"
    /\ f_ret' = [raised |-> "no", value |-> EssaysOrSentinel(f_essays)]
    /\ f_pc' = "done"
    /\ UNCHANGED <<f_page, f_essays, f_tried>>
    /\ UNCHANGED notFetch

FetchNext ==
    \/ F_Get \/ F_GetRaises \/ F_Strategy1 \/ F_Strategy2 \/ F_Skip2
    \/ F_Strategy3 \/ F_Skip3 \/ F_Return

SpecFetch == FetchInit /\ [][FetchNext]_vars

(***************************************************************************)
(* One run of rank_content_by_relevance.                                   *)
(***************************************************************************)
RankInit ==
    /\ clock = 0 /\ AppParked /\ FetchParked /\ NameParked
    /\ r_pc = "start" /\ r_essays \in RankInputs
    /\ r_scores = <<>> /\ r_ret = <<>>

\* if not essays: return None
R_Empty ==
    /\ r_pc = "start" /\ r_essays = <<>>
    /\ r_ret' = rank_content_by_relevance(r_essays, [raised |-> FALSE, scores |-> <<>>])
    /\ r_pc' = "done"
    /\ UNCHANGED <<r_essays, r_scores>>
    /\ UNCHANGED notRank

\* model.encode / util.cos_sim return the similarities
R_Encode ==
    /\ r_pc = "start" /\ r_essays # <<>>
    /\ \E sc \in [1..Len(r_essays) -> 0..MaxScore] : r_scores' = sc
    /\ r_pc' = "scored"
    /\ UNCHANGED <<r_essays, r_ret>>
    /\ UNCHANGED notRank

\* model.encode / util.cos_sim raise: except Exception -> return essays[0]
R_EncodeRaises ==
    /\ r_pc = "start" /\ r_essays # <<>>
    /\ r_ret' = rank_content_by_relevance(r_essays, [raised |-> TRUE, scores |-> <<>>])
    /\ r_pc' = "fellback"
    /\ UNCHANGED <<r_essays, r_scores>>
    /\ UNCHANGED notRank

\* best_idx = similarities.argmax().item(); return essays[best_idx]
R_Argmax ==
    /\ r_pc = "scored"
    /\ r_ret' = rank_content_by_relevance(r_essays, [raised |-> FALSE, scores |-> r_scores])
    /\ r_pc' = "done"
    /\ UNCHANGED <<r_essays, r_scores>>
    /\ UNCHANGED notRank

RankNext == R_Empty \/ R_Encode \/ R_EncodeRaises \/ R_Argmax

SpecRank == RankInit /\ [][RankNext]_vars

(***************************************************************************)
(* One run of generate_filename.                                           *)
(***************************************************************************)
NameInit ==
    /\ clock \in 0..MaxClock /\ AppParked /\ FetchParked /\ RankParked
    /\ n_pc = "start" /\ n_title \in NameInputs /\ n_query \in NameInputs
    /\ n_ret = <<>>

N_Call ==
    /\ n_pc = "start"
    /\ n_ret' = generate_filename(n_title, n_query, clock)
    /\ n_pc' = "done"
    /\ UNCHANGED <<n_title, n_query>>
    /\ UNCHANGED notName

NameNext == N_Call

SpecName == NameInit /\ [][NameNext]_vars

(***************************************************************************)
(* The application: the background loader of app.py, the /process handler  *)
(* and, inside it, process_workflow of workflow.py.  Requests run          *)
(* concurrently with each other, with the loader and with the clock.       *)
(***************************************************************************)
Reqs == {"r1", "r2"}

\* the form data a client may post
FormUrls    == {<<>>, <<"h", "1">>, <<"https://", "h", "2">>, <<"http://", "h", "3">>}
FormQueries == {<<" ">>, <<"q">>, <<" ", "q", "!">>}

TwoArticles ==
    [title    |-> [present |-> TRUE, string |-> <<"c">>],
     articles |-> <<[heading |-> [tag |-> "h2", text |-> <<"a">>], paras |-> <<120, 80>>,
                     noise |-> FALSE],
                    [heading |-> [tag |-> "h2", text |-> <<"a", "!">>], paras |-> <<250>>,
                     noise |-> FALSE]>>,
     main     |-> NoMain,
     loose    |-> <<>>]
MainOnly ==
    [title    |-> [present |-> FALSE, string |-> None],
     articles |-> <<>>,
     main     |-> [kind |-> "main", pos |-> "before",
                   heading |-> [tag |-> "h1", text |-> <<"a">>], paras |-> <<300>>],
     loose    |-> <<>>]
UntitledText ==
    [title    |-> [present |-> TRUE, string |-> None],
     articles |-> <<>>,
     main     |-> NoMain,
     loose    |-> <<150, 150>>]

\* the page each URL serves
Web(url) ==
    IF url = <<"https://", "h", "1">> THEN TwoArticles
    ELSE IF url = <<"https://", "h", "2">> THEN MainOnly
    ELSE UntitledText

StillStarting ==
    [kind |-> "error",
     error |-> "Service is still starting (model/workflow loading). Please try again in a few moments."]
Failed(what) == [kind |-> "error", error |-> "Processing failed: " \o what]

\* a handler's locals; rank_raised (the ranker's try block raised) and named_at
\* (the second generate_filename read) are ghost fields
NoLocals == [url |-> <<>>, query |-> <<>>, essays |-> <<>>, rank_raised |-> FALSE,
             best_essay |-> NoneEssay, filename |-> <<>>, named_at |-> 0,
             local_file_path |-> <<>>]

AppInit ==
    /\ clock = 0
    /\ loader_pc = "start" /\ model = "None"
    /\ model_ready = FALSE /\ workflow_ready = FALSE /\ process_workflow = "None"
    /\ pc = [r \in Reqs |-> "idle"]
    /\ form = [r \in Reqs |-> [url |-> <<>>, query |-> <<>>]]
    /\ loc = [r \in Reqs |-> NoLocals]
    /\ response = [r \in Reqs |-> [kind |-> "none"]]
    /\ files = {}
    /\ log = [r \in Reqs |-> <<>>]
    /\ FetchParked /\ RankParked /\ NameParked

notApp    == <<fetchVars, rankVars, nameVars>>
globals   == <<model, model_ready, workflow_ready, process_workflow>>
handlers  == <<pc, form, loc, response, files, log>>

\* the clock advances by one second
Tick ==
    /\ clock < MaxClock
    /\ clock' = clock + 1
    /\ UNCHANGED <<loader_pc, globals, handlers, notApp>>

\* ---- load_model_and_workflow ----

\* model = SentenceTransformer('all-MiniLM-L6-v2')
L_LoadModel ==
    /\ loader_pc = "start"
    /\ model' = "SentenceTransformer"
    /\ loader_pc' = "model_loaded"
    /\ UNCHANGED <<clock, model_ready, workflow_ready, process_workflow, handlers, notApp>>

\* the import or the constructor raises: the outer except logs it, flags stay False
L_LoadModelRaises ==
    /\ loader_pc = "start"
    /\ loader_pc' = "done"
    /\ UNCHANGED <<clock, globals, handlers, notApp>>

\* with _model_lock: model_ready = True
L_SetModelReady ==
    /\ loader_pc = "model_loaded"
    /\ model_ready' = TRUE
    /\ loader_pc' = "import"
    /\ UNCHANGED <<clock, model, workflow_ready, process_workflow, handlers, notApp>>

\* import workflow as wf; process_workflow = getattr(wf, "process_workflow", None)
\* (workflow.py defines process_workflow, so the getattr finds it)
L_ImportWorkflow ==
    /\ loader_pc = "import"
    /\ process_workflow' = "wf.process_workflow"
    /\ loader_pc' = "bound"
    /\ UNCHANGED <<clock, model, model_ready, workflow_ready, handlers, notApp>>

\* import workflow raises: the inner except logs it, workflow_ready stays False
L_ImportRaises ==
    /\ loader_pc = "import"
    /\ loader_pc' = "done"
    /\ UNCHANGED <<clock, globals, handlers, notApp>>

\* workflow_ready = True
L_SetWorkflowReady ==
    /\ loader_pc = "bound"
    /\ workflow_ready' = TRUE
    /\ loader_pc' = "done"
    /\ UNCHANGED <<clock, model, model_ready, process_workflow, handlers, notApp>>

\* ---- process(), the /process handler ----

Respond(r, resp) ==
    /\ response' = [response EXCEPT ![r] = resp]
    /\ pc' = [pc EXCEPT ![r] = "responded"]

\* a client posts the form
Receive(r) ==
    /\ pc[r] = "idle"
    /\ \E u \in FormUrls, q \in FormQueries : form' = [form EXCEPT ![r] = [url |-> u, query |-> q]]
    /\ pc' = [pc EXCEPT ![r] = "validate"]
    /\ UNCHANGED <<clock, loader_pc, globals, loc, response, files, log, notApp>>

\* url.startswith(('http://', 'https://'))
HasScheme(url) == url # <<>> /\ url[1] \in {"http://", "https://"}

\* the form is read, stripped and validated; the URL gets a scheme
P_Validate(r) ==
    /\ pc[r] = "validate"
    /\ LET url   == StripSpace(form[r].url)
           query == StripSpace(form[r].query)
       IN  IF url = <<>>
           THEN Respond(r, [kind |-> "error", error |-> "Please provide a valid URL"])
                /\ UNCHANGED loc
           ELSE IF query = <<>>
           THEN Respond(r, [kind |-> "error", error |-> "Please provide a research query"])
                /\ UNCHANGED loc
           ELSE /\ loc' = [loc EXCEPT ![r].url = IF HasScheme(url) THEN url
                                                 ELSE <<"https://">> \o url,
                                      ![r].query = query]
                /\ pc' = [pc EXCEPT ![r] = "check_workflow_ready"]
                /\ UNCHANGED response
    /\ UNCHANGED <<clock, loader_pc, globals, form, files, log, notApp>>

\* a variant that does not consult workflow_ready
Mut_P_CheckWorkflowReady(r) ==
    /\ pc[r] = "check_workflow_ready"
    /\ pc' = [pc EXCEPT ![r] = "check_model_ready"]
    /\ UNCHANGED <<clock, loader_pc, globals, form, loc, response, files, log, notApp>>

\* if not workflow_ready or not model_ready or process_workflow is None:
\* the three globals are read one after the other
P_CheckWorkflowReady(r) ==
    /\ pc[r] = "check_workflow_ready"
    /\ IF ~workflow_ready THEN Respond(r, StillStarting)
       ELSE pc' = [pc EXCEPT ![r] = "check_model_ready"] /\ UNCHANGED response
    /\ UNCHANGED <<clock, loader_pc, globals, form, loc, files, log, notApp>>

P_CheckModelReady(r) ==
    /\ pc[r] = "check_model_ready"
    /\ IF ~model_ready THEN Respond(r, StillStarting)
       ELSE pc' = [pc EXCEPT ![r] = "check_process_workflow"] /\ UNCHANGED response
    /\ UNCHANGED <<clock, loader_pc, globals, form, loc, files, log, notApp>>

P_CheckProcessWorkflow(r) ==
    /\ pc[r] = "check_process_workflow"
    /\ IF process_workflow = "None" THEN Respond(r, StillStarting)
       ELSE pc' = [pc EXCEPT ![r] = "call"] /\ UNCHANGED response
    /\ UNCHANGED <<clock, loader_pc, globals, form, loc, files, log, notApp>>

\* local_file_path = process_workflow(url, query): the global is read again and
\* called; calling None raises TypeError, which the handler's except reports
P_Call(r) ==
    /\ pc[r] = "call"
    /\ IF process_workflow = "None"
       THEN Respond(r, Failed("TypeError")) /\ UNCHANGED log
       ELSE /\ pc' = [pc EXCEPT ![r] = "fetch"]
            /\ log' = [log EXCEPT ![r] = Append(@, "process_workflow")]
            /\ UNCHANGED response
    /\ UNCHANGED <<clock, loader_pc, globals, form, loc, files, notApp>>

\* ---- process_workflow(url, user_query) ----

\* essays = fetch_and_parse_content(url), the page fetched
W_Fetch(r) ==
    /\ pc[r] = "fetch"
    /\ loc' = [loc EXCEPT ![r].essays = fetch_and_parse_content(Web(loc[r].url))]
    /\ log' = [log EXCEPT ![r] = Append(@, "fetch")]
    /\ pc' = [pc EXCEPT ![r] = "rank"]
    /\ UNCHANGED <<clock, loader_pc, globals, form, response, files, notApp>>

\* fetch_and_parse_content raises; the exception leaves process_workflow and the
\* handler's except reports it
W_FetchRaises(r) ==
    /\ pc[r] = "fetch"
    /\ log' = [log EXCEPT ![r] = Append(@, "fetch")]
    /\ Respond(r, Failed("Error fetching/parsing content"))
    /\ UNCHANGED <<clock, loader_pc, globals, form, loc, files, notApp>>

\* best_essay = rank_content_by_relevance(essays, user_query);
\* if not best_essay: raise Exception("No relevant content found")
W_Rank(r) ==
    /\ pc[r] = "rank"
    /\ \E enc \in Encodings(Len(loc[r].essays)) :
          LET best_essay == rank_content_by_relevance(loc[r].essays, enc)
          IN  /\ loc' = [loc EXCEPT ![r].best_essay = best_essay,
                                    ![r].rank_raised = enc.raised]
              /\ IF best_essay = NoneEssay
                 THEN Respond(r, Failed("No relevant content found"))
                 ELSE pc' = [pc EXCEPT ![r] = "name"] /\ UNCHANGED response
    /\ log' = [log EXCEPT ![r] = Append(@, "rank")]
    /\ UNCHANGED <<clock, loader_pc, globals, form, files, notApp>>

\* best_essay['query_used'] = user_query
Attach(essay, query) ==
    [title |-> essay.title, content |-> essay.content, query_used |-> query]

\* best_essay['query_used'] = user_query;
\* filename = generate_filename(best_essay['title'], user_query)
W_Name(r) ==
    /\ pc[r] = "name"
    /\ LET named == generate_filename(loc[r].best_essay.title, loc[r].query, clock)
       IN  /\ loc' = [loc EXCEPT ![r].best_essay = Attach(@, loc[r].query),
                                 ![r].filename = IF named.raised = "no"
                                                 THEN named.value ELSE <<>>,
                                 ![r].named_at = clock]
           /\ IF named.raised = "no"
              THEN pc' = [pc EXCEPT ![r] = "render"] /\ UNCHANGED response
              ELSE Respond(r, Failed(named.raised))
    /\ UNCHANGED <<clock, loader_pc, globals, form, files, log, notApp>>

\* the attributes of a dict: its methods, never its keys
DictAttributes == {"get", "keys", "values", "items", "update", "pop", "setdefault"}
\* hasattr(essay_data, name), essay_data a dict
HasAttr(essay_data, name) == name \in DictAttributes

\* the document generate_pdf builds: title, the metadata block (source, generation
\* time and, under the hasattr test, the research query) and the body (the content,
\* its whitespace collapsed); writer is a ghost field naming the request
Document(essay_data, source_url, t, r) ==
    [title     |-> essay_data.title,
     source    |-> source_url,
     generated |-> t,
     query     |-> IF HasAttr(essay_data, "query_used") /\ essay_data.query_used # <<>>
                   THEN <<essay_data.query_used>> ELSE <<>>,
     body      |-> essay_data.content,
     writer    |-> r]

PDF_STORAGE_DIR == <<"generated_pdfs", "/">>
\* os.path.join(PDF_STORAGE_DIR, filename)
PathJoin(dir, filename) == dir \o filename
\* os.path.basename(path)
Basename(path) == SubSeq(path, Len(PDF_STORAGE_DIR) + 1, Len(path))

\* pdf.output(file_path): the file of that name is created or overwritten
Output(dir, file_path, doc) ==
    {f \in dir : f.path # file_path} \cup {[path |-> file_path, doc |-> doc]}

\* local_file_path = generate_pdf(best_essay, url, filename)
W_Render(r) ==
    /\ pc[r] = "render"
    /\ LET file_path == PathJoin(PDF_STORAGE_DIR, loc[r].filename)
       IN  /\ files' = Output(files, file_path,
                              Document(loc[r].best_essay, loc[r].url, clock, r))
           /\ loc' = [loc EXCEPT ![r].local_file_path = file_path]
    /\ log' = [log EXCEPT ![r] = Append(@, "render")]
    /\ pc' = [pc EXCEPT ![r] = "return"]
    /\ UNCHANGED <<clock, loader_pc, globals, form, response, notApp>>

\* a variant that tries the rendering again after a failure
Mut_W_RenderRaises(r) ==
    /\ pc[r] = "render"
    /\ Len(log[r]) < 6
    /\ log' = [log EXCEPT ![r] = Append(@, "render")]
    /\ UNCHANGED <<clock, loader_pc, globals, form, loc, response, files, pc, notApp>>

\* generate_pdf raises before the file is written: Exception("Error generating PDF")
W_RenderRaises(r) ==
    /\ pc[r] = "render"
    /\ log' = [log EXCEPT ![r] = Append(@, "render")]
    /\ Respond(r, Failed("Error generating PDF"))
    /\ UNCHANGED <<clock, loader_pc, globals, form, loc, files, notApp>>

\* return local_file_path; filename = os.path.basename(local_file_path);
\* render_template('result.html', success=True, ...)
P_Success(r) ==
    /\ pc[r] = "return"
    /\ Respond(r, [kind |-> "success", filename |-> Basename(loc[r].local_file_path),
                   file_path |-> loc[r].local_file_path])
    /\ UNCHANGED <<clock, loader_pc, globals, form, loc, files, log, notApp>>

Next ==
    \/ Tick
    \/ L_LoadModel \/ L_LoadModelRaises \/ L_SetModelReady
    \/ L_ImportWorkflow \/ L_ImportRaises \/ L_SetWorkflowReady
    \/ \E r \in Reqs :
          \/ Receive(r) \/ P_Validate(r)
          \/ P_CheckWorkflowReady(r) \/ P_CheckModelReady(r) \/ P_CheckProcessWorkflow(r)
          \/ P_Call(r)
          \/ W_Fetch(r) \/ W_FetchRaises(r) \/ W_Rank(r) \/ W_Name(r)
          \/ W_Render(r) \/ W_RenderRaises(r) \/ P_Success(r)

Spec == AppInit /\ [][Next]_vars

(***************************************************************************)
(* Properties of fetch_and_parse_content (SpecFetch).                      *)
(***************************************************************************)
\* the article elements of the input that survive the removal of noise elements
LiveArticles(page) == LET Live(a) == ~a.noise IN SelectSeq(page.articles, Live)

\* an article whose joined paragraph text exceeds 200 characters
Qualifies(a) == JoinLen(a.paras) > MinContent

\* C1: a successful fetch returns a non-empty list: either every Candidate has
\* content longer than 200 characters or the list is the single sentinel, and
\* the sentinel is returned exactly when the three strategies all ran and none
\* produced a Candidate.
C1_NonEmptyOrSentinel ==
    f_pc = "done" =>
        LET v == f_ret.value
        IN  /\ f_ret.raised = "no"
            /\ Len(v) >= 1
            /\ \/ \A i \in 1..Len(v) : v[i].content > MinContent
               \/ v = <<Sentinel>>
            /\ (v = <<Sentinel>>) <=> (f_tried = <<1, 2, 3>> /\ f_essays = <<>>)
            /\ (v # <<Sentinel>>) => v = f_essays

C1_Witness ==
    /\ f_pc = "done" /\ f_ret.value = <<Sentinel>>
    /\ f_page.articles # <<>> /\ f_page.loose # <<>>

\* C2 as stated: any article element with more than 200 characters of paragraph
\* text, wherever it is, makes Strategy 1 produce a result and keeps strategies
\* 2 and 3 from running.
C2_AnyArticle ==
    (f_pc = "done" /\ \E i \in 1..Len(f_page.articles) : Qualifies(f_page.articles[i]))
        => (f_tried = <<1>> /\ f_essays # <<>>)

\* C2 amended: the same, for an article among the first 10 article elements
\* that remain once the noise elements are removed.
C2_AmongFirstTen ==
    LET live == LiveArticles(f_page)
    IN  (f_pc = "done"
            /\ \E i \in 1..Len(live) : i <= ArticleLimit /\ Qualifies(live[i]))
        => (f_tried = <<1>> /\ f_essays # <<>> /\ f_ret.value = f_essays)

C2_Witness ==
    LET live == LiveArticles(f_page)
    IN  /\ f_pc = "done" /\ f_tried = <<1>>
        /\ Len(live) >= ArticleLimit
        /\ Qualifies(live[ArticleLimit])
        /\ \A i \in 1..(ArticleLimit - 1) : ~Qualifies(live[i])

\* C3: the strategies run in the order 1, 2, 3; a strategy runs only while no
\* Candidate has been produced, and a produced list is never added to; the
\* returned list is Strategy 1's (at most 10 Candidates) or holds exactly one
\* Candidate.
C3_FirstStrategyWins ==
    /\ [](f_tried \in {<<>>, <<1>>, <<1, 2>>, <<1, 2, 3>>})
    /\ [][(f_tried' # f_tried) => f_essays = <<>>]_vars
    /\ [][(f_essays # <<>>) => f_essays' = f_essays]_vars
    /\ [](f_pc = "done" =>
            /\ f_tried # <<>>
            /\ Len(f_tried) = 1 => (f_ret.value = f_essays /\ Len(f_essays) <= ArticleLimit)
            /\ Len(f_tried) > 1 => Len(f_ret.value) = 1)

C3_Witness ==
    /\ f_pc = "done" /\ f_tried = <<1, 2, 3>> /\ f_ret.value # <<Sentinel>>
    /\ LiveArticles(f_page) # <<>>

(***************************************************************************)
(* Properties of rank_content_by_relevance (SpecRank).                     *)
(***************************************************************************)
\* C4: on a non-empty sequence the ranker returns an element of the sequence,
\* never None: when the scores were computed, the Candidate at the first index
\* holding the maximum score.  It returns None only on the empty sequence.
C4_ReturnsFirstMaximum ==
    /\ (r_pc \in {"done", "fellback"}) =>
          /\ (r_ret = NoneEssay) <=> (r_essays = <<>>)
          /\ r_essays # <<>> => \E i \in 1..Len(r_essays) : r_ret = r_essays[i]
    /\ (r_pc = "done" /\ r_essays # <<>>) =>
          \E i \in 1..Len(r_essays) :
              /\ r_ret = r_essays[i]
              /\ \A j \in 1..Len(r_essays) : r_scores[j] <= r_scores[i]
              /\ \A j \in 1..(i - 1) : r_scores[j] < r_scores[i]

C4_Witness ==
    /\ r_pc = "done" /\ Len(r_essays) = 3
    /\ r_scores[1] < r_scores[2] /\ r_scores[2] = r_scores[3]
    /\ r_essays[2] # r_essays[3] /\ r_ret = r_essays[2]

(***************************************************************************)
(* Properties of generate_filename (SpecName).                             *)
(***************************************************************************)
IsSep(c) == IsSpace(c) \/ c = "-"

\* The sanitized form of a text, as the specification words it: the characters
\* other than word characters, spaces and hyphens removed; each run of hyphens
\* and spaces replaced by one underscore; leading and trailing underscores
\* trimmed.
Sanitized(s) ==
    LET Allowed(c) == IsWord(c) \/ IsSep(c)
        kept       == SelectSeq(s, Allowed)
        RunStart(i) == ~IsSep(kept[i]) \/ i = 1 \/ ~IsSep(kept[i - 1])
        sel        == SelectSeq([i \in 1..Len(kept) |-> i], RunStart)
        collapsed  == [j \in 1..Len(sel) |->
                          IF IsSep(kept[sel[j]]) THEN "_" ELSE kept[sel[j]]]
        solid      == {j \in 1..Len(sel) : collapsed[j] # "_"}
        lo         == CHOOSE j \in solid : \A k \in solid : j <= k
        hi         == CHOOSE j \in solid : \A k \in solid : k <= j
    IN  IF solid = {} THEN <<>> ELSE SubSeq(collapsed, lo, hi)

\* NotebookLM_{T}_{Q}_{timestamp}.pdf
FullName(T, Q, t) ==
    NamePrefix \o T \o <<"_">> \o Q \o <<"_">> \o Timestamp(t) \o NameSuffix
\* NotebookLM_{T}_{timestamp}.pdf
TitleName(T, t) == NamePrefix \o T \o <<"_">> \o Timestamp(t) \o NameSuffix
\* NotebookLM_Content_{timestamp}.pdf
ContentName(t) == TitleName(NameContent, t)

\* C7 as stated: the filename is NotebookLM_{T}_{Q}_{timestamp}.pdf, without
\* the query segment if Q is empty, and NotebookLM_Content_{timestamp}.pdf if
\* both T and Q are empty.
C7_ContentOnlyIfBothEmpty ==
    n_pc = "done" =>
        LET T == Take(Sanitized(n_title), TitleLimit)
            Q == Take(Sanitized(n_query), QueryLimit)
        IN  /\ n_ret.raised = "no"
            /\ n_ret.value = IF T = <<>> /\ Q = <<>> THEN ContentName(clock)
                             ELSE IF Q = <<>> THEN TitleName(T, clock)
                             ELSE FullName(T, Q, clock)

\* C7 amended: the filename is NotebookLM_Content_{timestamp}.pdf whenever T is
\* empty, whatever Q is; otherwise as stated.
C7_ContentIfTitleEmpty ==
    n_pc = "done" =>
        LET T == Take(Sanitized(n_title), TitleLimit)
            Q == Take(Sanitized(n_query), QueryLimit)
        IN  /\ n_ret.raised = "no"
            /\ n_ret.value = IF T = <<>> THEN ContentName(clock)
                             ELSE IF Q = <<>> THEN TitleName(T, clock)
                             ELSE FullName(T, Q, clock)

C7_Witness ==
    /\ n_pc = "done"
    /\ Len(Sanitized(n_title)) > TitleLimit /\ Len(Sanitized(n_query)) > QueryLimit
    /\ \E i \in 1..Len(n_title) : IsSep(n_title[i])
    /\ \E i \in 1..Len(n_query) : IsSep(n_query[i])
    /\ Len(n_ret.value) = Len(NamePrefix) + TitleLimit + 1 + QueryLimit + 3

(***************************************************************************)
(* Properties of the application (Spec).                                   *)
(***************************************************************************)
Ready == model_ready /\ workflow_ready /\ process_workflow # "None"

Stages == <<"process_workflow", "fetch", "rank", "render">>
IsPrefix(s, t) == Len(s) <= Len(t) /\ s = SubSeq(t, 1, Len(s))

WrittenBy(r) == {f \in files : f.doc.writer = r}

\* C5: when the embedding or similarity computation raises, the ranker returns
\* the first Candidate unchanged and nothing is propagated: the orchestrator
\* goes on to name and render that Candidate, and any document the invocation
\* writes is the first Candidate's.
C5_RankFailureFallsBack ==
    \A r \in Reqs :
        loc[r].rank_raised =>
            /\ loc[r].essays # <<>>
            /\ loc[r].best_essay # NoneEssay
            /\ loc[r].best_essay.title = loc[r].essays[1].title
            /\ loc[r].best_essay.content = loc[r].essays[1].content
            /\ pc[r] \in {"name", "render", "return", "responded"}
            /\ response[r] # Failed("No relevant content found")
            /\ pc[r] \in {"return", "responded"} => loc[r].best_essay.query_used = loc[r].query
            /\ \A f \in WrittenBy(r) :
                  /\ f.doc.title = loc[r].essays[1].title
                  /\ f.doc.body = loc[r].essays[1].content

C5_Witness ==
    \E r \in Reqs :
        /\ loc[r].rank_raised /\ Len(loc[r].essays) >= 2
        /\ response[r].kind = "success" /\ WrittenBy(r) # {}

\* C6: a document rendered after the orchestrator attached a non-empty query
\* holds that query in its metadata block.
C6_QueryInMetadata ==
    \A f \in files :
        loc[f.doc.writer].best_essay.query_used # <<>>
            => f.doc.query = <<loc[f.doc.writer].best_essay.query_used>>

\* C8: one invocation runs the stages at most once each, in the order fetch,
\* rank, render; after a failed fetch neither the ranker nor the generator
\* runs and no file is written; after a failed rendering no path is returned;
\* on success the path returned is the path the generator returned, and the
\* invocation has written exactly one document.
C8_OnePassNoRetry ==
    \A r \in Reqs :
        /\ IsPrefix(log[r], Stages)
        /\ Cardinality(WrittenBy(r)) <= 1
        /\ response[r] = Failed("Error fetching/parsing content") =>
              /\ log[r] = <<"process_workflow", "fetch">>
              /\ WrittenBy(r) = {}
              /\ loc[r].local_file_path = <<>>
        /\ response[r] = Failed("Error generating PDF") =>
              /\ log[r] = Stages
              /\ loc[r].local_file_path = <<>>
              /\ WrittenBy(r) = {}
        /\ response[r].kind = "success" =>
              /\ log[r] = Stages
              /\ response[r].file_path = loc[r].local_file_path
              /\ response[r].file_path = PathJoin(PDF_STORAGE_DIR, loc[r].filename)
              /\ response[r].filename = loc[r].filename
              /\ Cardinality(WrittenBy(r)) + Cardinality({q \in Reqs \ {r} :
                        loc[q].local_file_path = loc[r].local_file_path}) >= 1
        /\ WrittenBy(r) # {} => loc[r].local_file_path # <<>>

C8_Witness ==
    /\ response["r1"] = Failed("Error generating PDF")
    /\ response["r2"].kind = "success"
    /\ Cardinality(files) = 1

\* a request whose stripped URL and query are both non-empty
ValidForm(r) == StripSpace(form[r].url) # <<>> /\ StripSpace(form[r].query) # <<>>

\* C9, its first and last parts: the orchestrator is invoked only in a state
\* where model_ready, workflow_ready and process_workflow are all set, and the
\* three never revert.
GatedAndMonotone ==
    /\ [][\A r \in Reqs : (log[r] = <<>> /\ log'[r] # <<>>) => Ready]_vars
    /\ [](\A r \in Reqs : log[r] # <<>> => Ready)
    /\ [][(model_ready => model_ready') /\ (workflow_ready => workflow_ready')
            /\ (process_workflow # "None" => process_workflow' = process_workflow)]_vars

\* a response given in a state that is not Ready
AnswersUnready(r) == pc[r] # "responded" /\ pc'[r] = "responded" /\ ~Ready

\* C9 as stated: every request handled before that point returns the 'still
\* starting' error, and has fetched and written nothing.
C9_EveryUnreadyRequestStillStarting ==
    [][\A r \in Reqs :
          AnswersUnready(r) =>
              (response'[r] = StillStarting /\ log'[r] = <<>> /\ files' = files)]_vars

\* C9 amended: every request with a non-empty URL and query handled before that
\* point returns the 'still starting' error; every request handled before that
\* point returns an error and has fetched and written nothing.
C9_ValidUnreadyRequestStillStarting ==
    /\ GatedAndMonotone
    /\ [][\A r \in Reqs :
             AnswersUnready(r) =>
                 /\ ValidForm(r) => response'[r] = StillStarting
                 /\ response'[r].kind = "error"
                 /\ log'[r] = <<>> /\ files' = files /\ WrittenBy(r) = {}]_vars

C9_Witness ==
    /\ response["r1"] = StillStarting /\ log["r1"] = <<>>
    /\ response["r2"].kind = "success"

\* the name generate_filename is to give a request, from the sanitized forms of
\* its title and query (without the timestamp)
Stem(r) ==
    LET T == Take(Sanitized(loc[r].best_essay.title), TitleLimit)
        Q == Take(Sanitized(loc[r].query), QueryLimit)
    IN  IF T = <<>> THEN NameContent ELSE IF Q = <<>> THEN T ELSE T \o <<"_">> \o Q

Named(r) == loc[r].filename # <<>>

\* C10 as stated: two invocations generate the same filename only if they run
\* within the same clock second with identical title and query.
C10_SameNameOnlyIfIdentical ==
    \A r1, r2 \in Reqs :
        (r1 # r2 /\ Named(r1) /\ Named(r2) /\ loc[r1].filename = loc[r2].filename) =>
            /\ loc[r1].named_at = loc[r2].named_at
            /\ loc[r1].best_essay.title = loc[r2].best_essay.title
            /\ loc[r1].query = loc[r2].query

\* C10 amended: two invocations generate the same filename only if they run
\* within the same clock second with titles and queries whose sanitized,
\* truncated forms compose the same name; an invocation whose filename no other
\* invocation shares finds its own document at the path it returns, and a
\* rendering changes no file but the one at its own path.
C10_SameNameOnlyIfSameStem ==
    /\ [](\A r1, r2 \in Reqs :
            (r1 # r2 /\ Named(r1) /\ Named(r2)) =>
                (loc[r1].filename = loc[r2].filename
                    <=> (loc[r1].named_at = loc[r2].named_at /\ Stem(r1) = Stem(r2))))
    /\ [](\A r \in Reqs :
            (response[r].kind = "success"
                /\ \A q \in Reqs \ {r} : loc[q].filename # loc[r].filename) =>
                    \E f \in files :
                        /\ f.path = response[r].file_path /\ f.doc.writer = r
                        /\ f.doc.title = loc[r].best_essay.title
                        /\ f.doc.source = loc[r].url)
    /\ [][\A r \in Reqs :
            (pc[r] = "render" /\ pc'[r] # "render") =>
                \A f \in (files \ files') \cup (files' \ files) :
                    f.path = PathJoin(PDF_STORAGE_DIR, loc[r].filename)]_vars

C10_Witness ==
    /\ response["r1"].kind = "success" /\ response["r2"].kind = "success"
    /\ loc["r1"].filename = loc["r2"].filename
    /\ loc["r1"].best_essay.title # loc["r2"].best_essay.title
    /\ loc["r1"].url # loc["r2"].url
    /\ Cardinality(files) = 1

====
